---- MODULE Spec2Model ----
(***************************************************************************)
(* Connect 4 (10x10) with a minimax/alpha-beta bot and a fatigue dice.     *)
(*                                                                         *)
(*   src/Robot/robot_brain.py  board primitives, evaluation, search        *)
(*   src/Robot/DiceTurn.py     TurnState and roll_next_turn                *)
(*   src/Backend/main.py       the session: state, _apply_move, routes     *)
(*                                                                         *)
(* Conventions.  Python's None is the string None for identifiers and      *)
(* cells, NoRow for a missing row, and the empty sequence for a missing    *)
(* record.  Scores are kept in half points (every score of the code is a   *)
(* multiple of 0.5, from center_weight = 2.5), so a score s of the code is *)
(* the integer 2*s here.  math.inf is INF, larger than any score.          *)
(***************************************************************************)
EXTENDS Integers, Sequences, FiniteSets, TLC

VARIABLES
  board,        \* main.py state["board"]
  winner,       \* main.py state["winner"]
  last_move,    \* main.py state["last_move"]: <<>> or <<[player,row,col]>>
  history,      \* main.py state["history"]
  turn_state,   \* main.py state["turn_state"]: a TurnState
  http,         \* status of the last response of the session (0: none yet)
  rolls,        \* the last rolls on this TurnState: players, pool, response
  served,       \* the number of move requests handled in this game
  threads,      \* the move requests being handled concurrently
  lab           \* a board handed to the search, and the call made on it

vars == <<board, winner, last_move, history, turn_state, http, rolls, served,
          threads, lab>>

----------------------------------------------------------------------------
(* Program constants *)

ROWS == 10
COLS == 10
CONNECT_N == 4
MAX_DEPTH == 4
WIN_SCORE == 10000
CENTER_WEIGHT_X2 == 5
INF == 1000000000
NoRow == -1

None == "None"
BOT == "BOT"
PLAYERS == <<"P1", "P2", "BOT">>

----------------------------------------------------------------------------
(* Bounds of the model *)

\* Longest players list a dice request overrides the pool with.
MaxPlayers == 2

\* Move requests the session handles between two resets.
MaxRequests == 2

\* Deepest search a bot request asks for (the API admits 1..8).
MaxBotDepth == 1

\* Discs dropped on a board before it is handed to the search.
MaxDrops == 3

----------------------------------------------------------------------------
(* Sequence helpers (Python list operations) *)

RECURSIVE Without(_, _)
\* [p for p in players if p != x]
Without(players, x) ==
  IF players = <<>> THEN <<>>
  ELSE IF Head(players) = x THEN Without(Tail(players), x)
       ELSE <<Head(players)>> \o Without(Tail(players), x)

Elems(s) == {s[i] : i \in 1..Len(s)}


----------------------------------------------------------------------------
(* src/Robot/DiceTurn.py *)

NewTurnState == [last_player |-> None, consecutive_count |-> 0, skip_next |-> None]

\* RollPool with the skip never applied.
RollPool_NoSkip(players, st) == players

\* Lines 34-37: the pool a roll draws from.
RollPool(players, st) ==
  LET pool == Without(players, st.skip_next)
  IN  IF pool = <<>> THEN players ELSE pool

\* RollState with line 54 (consecutive_count = 0) left out.
RollState_NoCountReset(st, chosen) ==
  LET count == IF chosen = st.last_player THEN st.consecutive_count + 1 ELSE 1
  IN  [last_player |-> chosen, consecutive_count |-> count,
       skip_next |-> IF count >= 2 THEN chosen ELSE None]

\* Lines 41-55: the state after `chosen` was drawn.
RollState(st, chosen) ==
  LET cleared == IF st.skip_next # None THEN None ELSE st.skip_next
      count   == IF chosen = st.last_player THEN st.consecutive_count + 1 ELSE 1
  IN  IF count >= 2
        THEN [last_player |-> chosen, consecutive_count |-> 0, skip_next |-> chosen]
        ELSE [last_player |-> chosen, consecutive_count |-> count, skip_next |-> cleared]

\* Lines 51-55: forced_skip.
RollForced(st, chosen) ==
  (IF chosen = st.last_player THEN st.consecutive_count + 1 ELSE 1) >= 2

\* Line 57: an identifier is truthy when it is neither None nor "".
Truthy(x) == x # None /\ x # ""

\* Line 57: the pool reported for the next roll.
RollNextPool(players, st2) ==
  IF Truthy(st2.skip_next) THEN Without(players, st2.skip_next) ELSE players

\* Lines 58-63: the returned dict.
RollResponse(players, st, chosen) ==
  LET st2 == RollState(st, chosen)
  IN  [player         |-> chosen,
       skip_next      |-> st2.skip_next,
       forced_skip    |-> RollForced(st, chosen),
       next_roll_pool |-> RollNextPool(players, st2)]

----------------------------------------------------------------------------
(* src/Robot/robot_brain.py: board primitives *)

Rows == 0..(ROWS - 1)
Cols == 0..(COLS - 1)

\* main.py _new_board
EmptyBoard == [r \in Rows |-> [c \in Cols |-> None]]

RECURSIVE ScanUp(_, _, _)
\* The loop of find_drop_row: for row in range(ROWS - 1, -1, -1).
ScanUp(b, col, row) ==
  IF row < 0 THEN NoRow
  ELSE IF b[row][col] = None THEN row
       ELSE ScanUp(b, col, row - 1)

\* find_drop_row starting its scan one row above the bottom row.
find_drop_row_SkipsBottom(b, col) == ScanUp(b, col, ROWS - 2)

find_drop_row(b, col) == ScanUp(b, col, ROWS - 1)

board_is_full(b) == \A c \in Cols : b[0][c] # None

\* place_disc writing the cell above the drop row.
place_disc_Above(b, row, col, player) ==
  [b EXCEPT ![IF row > 0 THEN row - 1 ELSE row][col] = player]

place_disc(b, row, col, player) == [b EXCEPT ![row][col] = player]

in_bounds(row, col) == 0 <= row /\ row < ROWS /\ 0 <= col /\ col < COLS

\* directions, in the order of the code (evaluate_board and check_win).
Directions == << <<0, 1>>, <<1, 0>>, <<1, 1>>, <<-1, 1>> >>

RECURSIVE RunLength(_, _, _, _, _, _)
\* One while loop of check_win: the cells of `player` from (r, c) on.
RunLength(b, player, r, c, dr, dc) ==
  IF in_bounds(r, c) /\ b[r][c] = player
    THEN 1 + RunLength(b, player, r + dr, c + dc, dr, dc)
    ELSE 0

\* check_win looking along rows and columns only.
check_win_NoDiagonals(b, row, col) ==
  LET player == b[row][col]
  IN  /\ player # None
      /\ \E i \in 1..2 :
           LET dr == Directions[i][1]
               dc == Directions[i][2]
           IN  1 + RunLength(b, player, row + dr, col + dc, dr, dc)
                 + RunLength(b, player, row - dr, col - dc, -dr, -dc) >= CONNECT_N

check_win(b, row, col) ==
  LET player == b[row][col]
  IN  /\ player # None
      /\ \E i \in 1..Len(Directions) :
           LET dr == Directions[i][1]
               dc == Directions[i][2]
           IN  1 + RunLength(b, player, row + dr, col + dc, dr, dc)
                 + RunLength(b, player, row - dr, col - dc, -dr, -dc) >= CONNECT_N

\* valid_columns, ascending as range(COLS) gives them.
RECURSIVE ValidFrom(_, _)
ValidFrom(b, c) ==
  IF c >= COLS THEN <<>>
  ELSE IF find_drop_row(b, c) # NoRow THEN <<c>> \o ValidFrom(b, c + 1)
       ELSE ValidFrom(b, c + 1)

valid_columns(b) == ValidFrom(b, 0)

----------------------------------------------------------------------------
(* src/Robot/robot_brain.py: evaluation *)

\* A score of the code in half points.
HalfPts(x) == 2 * x

Count(window, Test(_)) == Cardinality({k \in 1..Len(window) : Test(window[k])})

\* ScoreOfCounts with the opponents' windows weighted as the bot's.
ScoreOfCounts_Symmetric(bot_count, opp_count, empty_count) ==
  IF bot_count > 0 /\ opp_count > 0 THEN 0
  ELSE IF bot_count = CONNECT_N THEN HalfPts(WIN_SCORE)
  ELSE IF opp_count = CONNECT_N THEN 0 - HalfPts(WIN_SCORE)
  ELSE (IF bot_count = 3 /\ empty_count = 1 THEN HalfPts(50)
        ELSE IF bot_count = 2 /\ empty_count = 2 THEN HalfPts(10)
        ELSE IF bot_count = 1 /\ empty_count = 3 THEN HalfPts(2)
        ELSE 0)
       - (IF opp_count = 3 /\ empty_count = 1 THEN HalfPts(50)
          ELSE IF opp_count = 2 /\ empty_count = 2 THEN HalfPts(10)
          ELSE IF opp_count = 1 /\ empty_count = 3 THEN HalfPts(2)
          ELSE 0)

\* Lines 173-193, for the three counts of lines 169-171.
ScoreOfCounts(bot_count, opp_count, empty_count) ==
  IF bot_count > 0 /\ opp_count > 0 THEN 0
  ELSE IF bot_count = CONNECT_N THEN HalfPts(WIN_SCORE)
  ELSE IF opp_count = CONNECT_N THEN 0 - HalfPts(WIN_SCORE)
  ELSE (IF bot_count = 3 /\ empty_count = 1 THEN HalfPts(50)
        ELSE IF bot_count = 2 /\ empty_count = 2 THEN HalfPts(10)
        ELSE IF bot_count = 1 /\ empty_count = 3 THEN HalfPts(2)
        ELSE 0)
       - (IF opp_count = 3 /\ empty_count = 1 THEN HalfPts(60)
          ELSE IF opp_count = 2 /\ empty_count = 2 THEN HalfPts(8)
          ELSE 0)

score_window(window, bot_id, opponents) ==
  LET IsBot(cell)   == cell = bot_id
      IsOpp(cell)   == \E i \in 1..Len(opponents) : opponents[i] = cell
      IsEmpty(cell) == cell = None
  IN  ScoreOfCounts(Count(window, IsBot), Count(window, IsOpp), Count(window, IsEmpty))

\* The window of CONNECT_N cells from (row, col) in direction d.
WindowAt(b, row, col, d) ==
  [k \in 1..CONNECT_N |->
     b[row + (k - 1) * Directions[d][1]][col + (k - 1) * Directions[d][2]]]

\* The body of the triple loop of evaluate_board for one (row, col, direction).
WindowScore(b, row, col, d, bot_id, opponents) ==
  IF ~in_bounds(row + (CONNECT_N - 1) * Directions[d][1],
                col + (CONNECT_N - 1) * Directions[d][2])
    THEN 0
    ELSE score_window(WindowAt(b, row, col, d), bot_id, opponents)

RECURSIVE SumDirs(_, _, _, _, _, _)
\* for dr, dc in directions, from direction d on.
SumDirs(b, row, col, d, bot_id, opponents) ==
  IF d > Len(Directions) THEN 0
  ELSE WindowScore(b, row, col, d, bot_id, opponents)
         + SumDirs(b, row, col, d + 1, bot_id, opponents)

RECURSIVE SumCols(_, _, _, _, _)
\* for col in range(COLS), from col on.
SumCols(b, row, col, bot_id, opponents) ==
  IF col >= COLS THEN 0
  ELSE SumDirs(b, row, col, 1, bot_id, opponents)
         + SumCols(b, row, col + 1, bot_id, opponents)

RECURSIVE SumRows(_, _, _, _)
\* for row in range(ROWS), from row on.
SumRows(b, row, bot_id, opponents) ==
  IF row >= ROWS THEN 0
  ELSE SumCols(b, row, 0, bot_id, opponents)
         + SumRows(b, row + 1, bot_id, opponents)

evaluate_board(b, bot_id, opponents) ==
  LET center_col   == COLS \div 2
      center_count == Cardinality({r \in Rows : b[r][center_col] = bot_id})
  IN  center_count * CENTER_WEIGHT_X2 + SumRows(b, 0, bot_id, opponents)
\* evaluate_board as a function of its arguments, for the calls the search
\* makes at its leaves (the body is evaluated apart from the caller's locals).
EvaluateAt[x \in [b : [Rows -> [Cols -> STRING]], bot_id : STRING, opponents : Seq(STRING)]] ==
  evaluate_board(x.b, x.bot_id, x.opponents)

----------------------------------------------------------------------------
(* src/Robot/robot_brain.py: search.  A search value is [v, n]: the score   *)
(* and the number of minimax calls made (nodes[0]).                         *)

\* The hypothetical move the search makes in column col: find_drop_row, then
\* place_disc on a copy (lines 44-46, 109-111, 122-125).
Hypothetical(b, col, player) ==
  LET row == find_drop_row(b, col)
  IN  [row |-> row, col |-> col, child |-> place_disc(b, row, col, player)]

Max(a, b) == IF a >= b THEN a ELSE b
Min(a, b) == IF a <= b THEN a ELSE b

\* TerminalScore scoring every completed line as a loss of the bot.
TerminalScore_AlwaysLoss(b, depth, bot_id, placed) ==
  HalfPts(0 - WIN_SCORE - depth)

\* Lines 92-97: the score of a position won by the disc at last_move.
TerminalScore(b, depth, bot_id, placed) ==
  IF b[placed[1]][placed[2]] = bot_id
    THEN HalfPts(WIN_SCORE + depth)
    ELSE HalfPts(0 - WIN_SCORE - depth)

\* Lines 115-116: the cutoff test of the maximizing layer.
MaxCutoff(alpha, beta) == alpha >= beta

\* MinCutoff with the comparison turned around.
MinCutoff_Inverted(alpha, beta) == beta >= alpha

\* Lines 130-133: the cutoff test of the minimizing layer.
MinCutoff(alpha, beta) == beta <= alpha

RECURSIVE minimax(_, _, _, _, _, _, _, _)
RECURSIVE MaxLoop(_, _, _, _, _, _, _, _, _, _)
RECURSIVE MinLoop(_, _, _, _, _, _, _, _, _, _, _)

\* Lines 132-133: after the opponent loop of column cols[i] ended (by its
\* break or by exhaustion), the column loop breaks on the same test.
MinAfterOpponents(b, depth, bot_id, opponents, cols, i, value, alpha, beta, n) ==
  IF MinCutoff(alpha, beta)
    THEN [v |-> value, n |-> n]
    ELSE MinLoop(b, depth, bot_id, opponents, cols, i + 1, 1, value, alpha, beta, n)

\* Lines 120-134: the minimizing layer at column cols[i], opponent opponents[j].
MinLoop(b, depth, bot_id, opponents, cols, i, j, value, alpha, beta, n) ==
  IF i > Len(cols) THEN [v |-> value, n |-> n]
  ELSE IF j > Len(opponents)
    THEN MinAfterOpponents(b, depth, bot_id, opponents, cols, i, value, alpha, beta, n)
  ELSE
    LET d      == Hypothetical(b, cols[i], opponents[j])
        r      == minimax(d.child, depth - 1, TRUE, bot_id, opponents, alpha, beta,
                          <<d.row, d.col>>)
        value2 == IF r.v < value THEN r.v ELSE value
        beta2  == Min(beta, value2)
    IN  IF MinCutoff(alpha, beta2)
          THEN MinAfterOpponents(b, depth, bot_id, opponents, cols, i,
                                 value2, alpha, beta2, n + r.n)
          ELSE MinLoop(b, depth, bot_id, opponents, cols, i, j + 1,
                       value2, alpha, beta2, n + r.n)

\* Lines 106-117: the maximizing layer at column cols[i].
MaxLoop(b, depth, bot_id, opponents, cols, i, value, alpha, beta, n) ==
  IF i > Len(cols) THEN [v |-> value, n |-> n]
  ELSE
    LET d      == Hypothetical(b, cols[i], bot_id)
        r      == minimax(d.child, depth - 1, FALSE, bot_id, opponents, alpha, beta,
                          <<d.row, d.col>>)
        value2 == Max(value, r.v)
        alpha2 == Max(alpha, value2)
    IN  IF MaxCutoff(alpha2, beta)
          THEN [v |-> value2, n |-> n + r.n]
          ELSE MaxLoop(b, depth, bot_id, opponents, cols, i + 1,
                       value2, alpha2, beta, n + r.n)

\* Lines 78-134.  placed is the argument last_move: <<row, col>>, or <<>> for None.
minimax(b, depth, maximizing, bot_id, opponents, alpha, beta, placed) ==
  IF placed # <<>> /\ check_win(b, placed[1], placed[2])
    THEN [v |-> TerminalScore(b, depth, bot_id, placed), n |-> 1]
  ELSE IF depth = 0 \/ board_is_full(b)
    THEN [v |-> EvaluateAt[[b |-> b, bot_id |-> bot_id, opponents |-> opponents]], n |-> 1]
  ELSE
    LET cols == valid_columns(b)
    IN  IF cols = <<>>
          THEN [v |-> EvaluateAt[[b |-> b, bot_id |-> bot_id, opponents |-> opponents]],
                n |-> 1]
        ELSE IF maximizing
          THEN MaxLoop(b, depth, bot_id, opponents, cols, 1, 0 - INF, alpha, beta, 1)
          ELSE MinLoop(b, depth, bot_id, opponents, cols, 1, 1, INF, alpha, beta, 1)

RECURSIVE TopLoop(_, _, _, _, _, _, _, _, _)
\* Lines 43-62: the loop of choose_best_move at column cols[i].
TopLoop(b, depth, bot_id, opponents, cols, i, best_score, best_move, n) ==
  IF i > Len(cols)
    THEN [column |-> best_move[2], row |-> best_move[1], score |-> best_score,
          depth |-> depth, nodes |-> n]
  ELSE
    LET d == Hypothetical(b, cols[i], bot_id)
        r == minimax(d.child, depth - 1, FALSE, bot_id, opponents, 0 - INF, INF,
                     <<d.row, d.col>>)
    IN  IF r.v > best_score
          THEN TopLoop(b, depth, bot_id, opponents, cols, i + 1, r.v,
                       <<d.row, d.col>>, n + r.n)
          ELSE TopLoop(b, depth, bot_id, opponents, cols, i + 1, best_score,
                       best_move, n + r.n)

RECURSIVE Built(_, _, _, _, _, _)
\* The hypothetical boards a search of b to `depth` builds when no cutoff
\* stops it (lines 44-46, 109-111, 122-125), each with the depth left after
\* it; the top level of choose_best_move is the maximizing layer without a
\* cutoff, so at depth 1 these are exactly the boards built.
Built(b, depth, maximizing, bot_id, opponents, placed) ==
  IF placed # <<>> /\ check_win(b, placed[1], placed[2]) THEN {}
  ELSE IF depth = 0 \/ board_is_full(b) THEN {}
  ELSE
    LET cols    == valid_columns(b)
        movers  == IF maximizing THEN {bot_id} ELSE Elems(opponents)
        made    == {Hypothetical(b, cols[i], p) : i \in 1..Len(cols), p \in movers}
    IN  {[child |-> d.child, row |-> d.row, col |-> d.col, depth |-> depth - 1] :
           d \in made}
        \cup UNION {Built(d.child, depth - 1, ~maximizing, bot_id, opponents,
                          <<d.row, d.col>>) : d \in made}

\* Lines 196-206: the identifiers infer_opponents returns; list(ids) gives
\* them in an order the set's hashing decides.
InferredIds(b, bot_id) ==
  {b[r][c] : r \in Rows, c \in Cols} \ {None, bot_id}

Orders(S) == {s \in [1..Cardinality(S) -> S] : Elems(s) = S}

infer_opponents(b, bot_id) ==
  IF InferredIds(b, bot_id) = {} THEN {<<"P1", "P2">>} ELSE Orders(InferredIds(b, bot_id))

\* Line 35: the lists `opponents` may be; opponent_ids is <<>> for None.
ResolveOpponents(b, bot_id, opponent_ids) ==
  IF opponent_ids # <<>> THEN {opponent_ids} ELSE infer_opponents(b, bot_id)

\* Lines 36-38: the call raises ValueError.
NoMovesAvailable(b) == valid_columns(b) = <<>>

\* Lines 25-75, for a board with a valid column and `opponents` resolved.
\* decision_ms, a wall-clock reading, is left out of the result.
choose_best_move(b, bot_id, opponents, depth) ==
  TopLoop(b, depth, bot_id, opponents, valid_columns(b), 1, 0 - INF, <<>>, 0)

----------------------------------------------------------------------------
(* src/Backend/main.py: the session *)

sessionVars == <<board, winner, last_move, history>>

\* Lines 91-97 (and reset, lines 186-189), without the TurnState.
NewSession ==
  [board |-> EmptyBoard, winner |-> None, last_move |-> <<>>, history |-> <<>>]

Session ==
  [board |-> board, winner |-> winner, last_move |-> last_move, history |-> history]

\* Lines 103-118.  [status, s]: the HTTP status and the session afterwards.
_apply_move(s, player_id, column) ==
  IF Truthy(s.winner) THEN [status |-> 400, s |-> s]
  ELSE
    LET drop_row == find_drop_row(s.board, column)
        move     == [player |-> player_id, row |-> drop_row, col |-> column]
        placed   == [s.board EXCEPT ![drop_row][column] = player_id]
    IN  IF drop_row = NoRow THEN [status |-> 400, s |-> s]
        ELSE [status |-> 200,
              s |-> [board     |-> placed,
                     winner    |-> IF check_win(placed, drop_row, column)
                                     THEN player_id ELSE s.winner,
                     last_move |-> <<move>>,
                     history   |-> Append(s.history, move)]]

\* Lines 141-154.  HumanMoveRequest admits player_id P1 or P2 and a column
\* in [0, COLS); line 143 rejects what that validation already excludes.
InvalidHuman(player_id) == player_id \notin Elems(PLAYERS) \/ player_id = BOT

human_move(s, player_id, column) ==
  IF InvalidHuman(player_id)
    THEN [status |-> 400, s |-> s]
    ELSE _apply_move(s, player_id, column)

\* Line 162: depth = body.depth or MAX_DEPTH; 0 stands for an omitted depth.
BotDepth(depth) == IF depth = 0 THEN MAX_DEPTH ELSE depth

\* Lines 157-181, with `opponents` the order infer_opponents returned.
bot_move(s, depth, opponents) ==
  IF Truthy(s.winner) THEN [status |-> 400, s |-> s]
  ELSE IF NoMovesAvailable(s.board) THEN [status |-> 400, s |-> s]
  ELSE _apply_move(s, BOT, choose_best_move(s.board, BOT, opponents, BotDepth(depth)).column)

\* A request of a replayed opening: <<"human", player_id, column>> or <<"bot", depth>>.
Request(s, req) ==
  IF req[1] = "human" THEN human_move(s, req[2], req[3]).s
  ELSE bot_move(s, req[2], CHOOSE o \in infer_opponents(s.board, BOT) : TRUE).s

RECURSIVE Replay(_, _)
\* The session after the requests reqs, handled one after the other from s.
Replay(s, reqs) ==
  IF reqs = <<>> THEN s ELSE Replay(Request(s, Head(reqs)), Tail(reqs))

----------------------------------------------------------------------------
(* Requests and the positions a behaviour starts from *)

Humans == {"P1", "P2"}

\* The players a dice request names: <<>> for none (line 136 rolls PLAYERS).
RECURSIVE ListsUpTo(_, _)
ListsUpTo(S, n) ==
  IF n = 0 THEN {<<>>}
  ELSE ListsUpTo(S, n - 1) \cup {Append(l, x) : l \in {m \in ListsUpTo(S, n - 1) : Len(m) = n - 1}, x \in S}

DiceBodies == ListsUpTo(Humans, MaxPlayers)

Times(n, req) == [i \in 1..n |-> req]

\* P1 is one disc short of four in column 0.
VerticalOpening == Times(3, <<"human", "P1", 0>>)

\* P2 is one disc short of four on the bottom row (columns 6..8).
HorizontalOpening == <<<<"human", "P2", 6>>, <<"human", "P2", 7>>, <<"human", "P2", 8>>>>

\* P1 holds (9,0), (8,1), (7,2) and column 3 is three high; P2 holds
\* (9,9), (8,8), (7,7) and column 6 is three high.
DiagonalOpening ==
  <<<<"human", "P1", 0>>,
    <<"human", "P2", 1>>, <<"human", "P1", 1>>,
    <<"human", "P2", 2>>, <<"human", "P2", 2>>, <<"human", "P1", 2>>,
    <<"human", "P2", 3>>, <<"human", "P1", 3>>, <<"human", "P2", 3>>,
    <<"human", "P2", 9>>,
    <<"human", "P1", 8>>, <<"human", "P2", 8>>,
    <<"human", "P1", 7>>, <<"human", "P1", 7>>, <<"human", "P2", 7>>,
    <<"human", "P1", 6>>, <<"human", "P2", 6>>, <<"human", "P1", 6>>>>

\* The bot has moved three times, at depth 1, on a fresh board.
BotOpening == Times(3, <<"bot", 1>>)

Openings == {<<>>, VerticalOpening, HorizontalOpening, DiagonalOpening, BotOpening}

idleThreads == <<>>
idleLab == [b |-> EmptyBoard, drops |-> 0, call |-> "none", args |-> <<>>, result |-> <<>>]

InitSession ==
  /\ \E o \in Openings :
       LET s == Replay(NewSession, o)
       IN  /\ board = s.board
           /\ winner = s.winner
           /\ last_move = s.last_move
           /\ history = s.history
  /\ turn_state = NewTurnState
  /\ http = 0
  /\ rolls = <<>>
  /\ served = 0
  /\ threads = idleThreads
  /\ lab = idleLab

----------------------------------------------------------------------------
(* The routes of main.py, each request handled to completion *)

Respond(r) ==
  /\ board' = r.s.board
  /\ winner' = r.s.winner
  /\ last_move' = r.s.last_move
  /\ history' = r.s.history
  /\ http' = r.status
  /\ served' = served + 1

\* POST /move/human
HumanMove ==
  /\ served < MaxRequests
  /\ \E player_id \in Humans, column \in Cols :
       Respond(human_move(Session, player_id, column))
  /\ lab' = idleLab
  /\ UNCHANGED <<turn_state, rolls, threads>>

\* POST /move/bot.  lab is one of the hypothetical boards the search of this
\* request built; no other request builds one.
BotMove ==
  /\ served < MaxRequests
  /\ \E depth \in 1..MaxBotDepth, opponents \in infer_opponents(board, BOT) :
       /\ Respond(bot_move(Session, depth, opponents))
       /\ IF Truthy(winner) \/ NoMovesAvailable(board)
            THEN lab' = idleLab
            ELSE \E h \in Built(board, BotDepth(depth), TRUE, BOT, opponents, <<>>) :
                   lab' = [b |-> h.child, drops |-> BotDepth(depth) - h.depth,
                           call |-> "hypothetical", args |-> <<h.col>>,
                           result |-> <<h.row>>]
  /\ UNCHANGED <<turn_state, rolls, threads>>

\* POST /reset.  The count of requests starts again with the new game.
Reset ==
  /\ board' = EmptyBoard
  /\ winner' = None
  /\ last_move' = <<>>
  /\ history' = <<>>
  /\ http' = 200
  /\ served' = 0
  /\ turn_state' = NewTurnState
  /\ rolls' = <<>>
  /\ lab' = idleLab
  /\ UNCHANGED threads

\* The log of the last three rolls on this TurnState, the newest last.  An
\* entry holds the players list of the call, the pool it drew from, what it
\* returned, and whether the roll before it drew the same player from the
\* same players list (repeat).
Logged(log, players, pool, resp) ==
  LET repeat == /\ log # <<>>
                /\ log[Len(log)].players = players
                /\ log[Len(log)].response.player = resp.player
      all    == Append(log, [players |-> players, pool |-> pool, response |-> resp,
                             repeat |-> repeat])
  IN  IF Len(all) > 3 THEN Tail(all) ELSE all

\* POST /dice/roll: roll_next_turn(body.players or PLAYERS, state["turn_state"]),
\* rnd.choice(pool) drawing any element of the pool.
RollDice ==
  /\ \E body \in DiceBodies :
       LET players == IF body = <<>> THEN PLAYERS ELSE body
           pool    == RollPool(players, turn_state)
       IN  \E k \in 1..Len(pool) :
             /\ turn_state' = RollState(turn_state, pool[k])
             /\ rolls' = Logged(rolls, players, pool,
                                RollResponse(players, turn_state, pool[k]))
  /\ http' = 200
  /\ lab' = idleLab
  /\ UNCHANGED <<board, winner, last_move, history, served, threads>>

NextSession == HumanMove \/ BotMove \/ Reset

SpecSession == InitSession /\ [][NextSession]_vars

InitDice ==
  /\ board = EmptyBoard
  /\ winner = None
  /\ last_move = <<>>
  /\ history = <<>>
  /\ turn_state = NewTurnState
  /\ http = 0
  /\ rolls = <<>>
  /\ served = 0
  /\ threads = idleThreads
  /\ lab = idleLab

NextDice == RollDice \/ Reset

SpecDice == InitDice /\ [][NextDice]_vars

----------------------------------------------------------------------------
(* Move requests handled concurrently.  human_move and bot_move are plain    *)
(* functions, which the framework runs on worker threads; main.py takes no   *)
(* lock, so the statements of two handlers interleave.  A thread is          *)
(* [kind, player, column, depth, pc, drop_row, status]; pc names the          *)
(* statement it executes next.                                               *)

\* Columns the concurrent human requests name.
RaceCols == {0, COLS \div 2}

HumanThread(player_id, column) ==
  [kind |-> "human", player |-> player_id, column |-> column, depth |-> 0,
   pc |-> "apply", drop_row |-> NoRow, status |-> 0]

BotThread(depth) ==
  [kind |-> "bot", player |-> BOT, column |-> NoRow, depth |-> depth,
   pc |-> "guard", drop_row |-> NoRow, status |-> 0]

At(i, pc) == i \in 1..Len(threads) /\ threads[i].pc = pc

\* The thread raises HTTPException(400) or returns; its response is sent.
Finish(i, status) ==
  /\ threads' = [threads EXCEPT ![i].pc = "done", ![i].status = status]
  /\ http' = status
  /\ served' = served + 1

Goto(i, pc) ==
  /\ threads' = [threads EXCEPT ![i].pc = pc]
  /\ UNCHANGED <<http, served>>

\* A request arrives while fewer than MaxRequests are in the session; line
\* 143 passes for every player_id the request model admits.
Arrive ==
  /\ Len(threads) < MaxRequests
  /\ \/ \E player_id \in Humans, column \in RaceCols :
          /\ ~InvalidHuman(player_id)
          /\ threads' = Append(threads, HumanThread(player_id, column))
     \/ \E depth \in 1..MaxBotDepth :
          threads' = Append(threads, BotThread(depth))
  /\ UNCHANGED <<sessionVars, turn_state, http, rolls, served, lab>>

\* bot_move, line 159.
BotGuard ==
  \E i \in 1..Len(threads) :
    /\ At(i, "guard")
    /\ IF Truthy(winner) THEN Finish(i, 400) ELSE Goto(i, "search")
    /\ UNCHANGED <<sessionVars, turn_state, rolls, lab>>

\* bot_move, lines 162-166: the search reads the board as it is now.
BotSearch ==
  \E i \in 1..Len(threads) :
    /\ At(i, "search")
    /\ IF NoMovesAvailable(board)
         THEN Finish(i, 400)
         ELSE \E opponents \in infer_opponents(board, BOT) :
                /\ threads' =
                     [threads EXCEPT
                        ![i].pc = "apply",
                        ![i].column =
                          choose_best_move(board, BOT, opponents,
                                           BotDepth(threads[i].depth)).column]
                /\ UNCHANGED <<http, served>>
    /\ UNCHANGED <<sessionVars, turn_state, rolls, lab>>

\* _apply_move, lines 104-105.
ApplyGuard ==
  \E i \in 1..Len(threads) :
    /\ At(i, "apply")
    /\ IF Truthy(winner) THEN Finish(i, 400) ELSE Goto(i, "find")
    /\ UNCHANGED <<sessionVars, turn_state, rolls, lab>>

\* _apply_move, lines 107-109.
ApplyFind ==
  \E i \in 1..Len(threads) :
    /\ At(i, "find")
    /\ IF find_drop_row(board, threads[i].column) = NoRow
         THEN Finish(i, 400)
         ELSE /\ threads' =
                   [threads EXCEPT
                      ![i].pc = "write",
                      ![i].drop_row = find_drop_row(board, threads[i].column)]
              /\ UNCHANGED <<http, served>>
    /\ UNCHANGED <<sessionVars, turn_state, rolls, lab>>

\* _apply_move, line 111.
ApplyWrite ==
  \E i \in 1..Len(threads) :
    /\ At(i, "write")
    /\ board' = [board EXCEPT ![threads[i].drop_row][threads[i].column] =
                                threads[i].player]
    /\ Goto(i, "last")
    /\ UNCHANGED <<winner, last_move, history, turn_state, rolls, lab>>

\* _apply_move, line 112.
ApplyLast ==
  \E i \in 1..Len(threads) :
    /\ At(i, "last")
    /\ last_move' = <<[player |-> threads[i].player, row |-> threads[i].drop_row,
                       col |-> threads[i].column]>>
    /\ Goto(i, "append")
    /\ UNCHANGED <<board, winner, history, turn_state, rolls, lab>>

\* _apply_move, line 113: the entry appended is state["last_move"] as it is now.
ApplyAppend ==
  \E i \in 1..Len(threads) :
    /\ At(i, "append")
    /\ history' = Append(history, last_move[1])
    /\ Goto(i, "check")
    /\ UNCHANGED <<board, winner, last_move, turn_state, rolls, lab>>

\* _apply_move, lines 115-118, and the response of the route.
ApplyCheck ==
  \E i \in 1..Len(threads) :
    /\ At(i, "check")
    /\ winner' = IF check_win(board, threads[i].drop_row, threads[i].column)
                   THEN threads[i].player ELSE winner
    /\ Finish(i, 200)
    /\ UNCHANGED <<board, last_move, history, turn_state, rolls, lab>>

NextConcurrent ==
  \/ Arrive
  \/ BotGuard
  \/ BotSearch
  \/ ApplyGuard
  \/ ApplyFind
  \/ ApplyWrite
  \/ ApplyLast
  \/ ApplyAppend
  \/ ApplyCheck

SpecConcurrent == InitSession /\ [][NextConcurrent]_vars

----------------------------------------------------------------------------
(* Calls of the functions of robot_brain.py on a board: lab.b is the board,  *)
(* built by drops (find_drop_row, then place_disc), lab.call the function    *)
(* last called on it, lab.args its arguments and lab.result what it returned. *)

\* The owner of cell (r, c) of the crowded position: pairs of rows alternate
\* owners along each column and owners alternate along each row, so that no
\* four cells in a row have one owner.
PatternCell(r, c) == IF ((r \div 2) + c) % 2 = 0 THEN "P1" ELSE "P2"

\* The cells column c keeps free at its top in the crowded position.
PatternFree(c) == IF c = 3 THEN 4 ELSE IF c = 5 THEN 3 ELSE 0

\* The human moves that fill column c of the crowded position, bottom up.
PatternMoves(c) ==
  [k \in 1..(ROWS - PatternFree(c)) |-> <<"human", PatternCell(ROWS - k, c), c>>]

RECURSIVE PatternFrom(_, _)
\* The session after the moves of the columns from c on, handled from s.
PatternFrom(s, c) ==
  IF c >= COLS THEN s
  ELSE LET filled == Replay(s, PatternMoves(c))
       IN  IF Truthy(filled.winner) THEN filled ELSE PatternFrom(filled, c + 1)

\* The board of the session after those moves.
CrowdedBoard == PatternFrom(NewSession, 0).board

\* Columns and players of the drops made on a board before a call.
DropCols == {3, COLS \div 2}

Called(b, drops, call, args, result) ==
  [b |-> b, drops |-> drops, call |-> call, args |-> args, result |-> result]

InitCalls(bases) ==
  /\ board = EmptyBoard
  /\ winner = None
  /\ last_move = <<>>
  /\ history = <<>>
  /\ turn_state = NewTurnState
  /\ http = 0
  /\ rolls = <<>>
  /\ served = 0
  /\ threads = idleThreads
  /\ \E b \in bases : lab = Called(b, 0, "none", <<>>, <<>>)

\* A disc of one of `players` is dropped on lab.b, as the search and the
\* session drop it; positions with a completed line are left out (the game
\* is over there).
DropDisc(players) ==
  /\ lab.drops < MaxDrops
  /\ \E col \in DropCols, p \in players :
       LET d == Hypothetical(lab.b, col, p)
       IN  /\ find_drop_row(lab.b, col) # NoRow
           /\ ~check_win(d.child, d.row, d.col)
           /\ lab' = Called(d.child, lab.drops + 1, "none", <<>>, <<>>)
  /\ UNCHANGED <<sessionVars, turn_state, http, rolls, served, threads>>

\* find_drop_row(lab.b, col)
CallFindDropRow ==
  /\ \E col \in Cols :
       lab' = Called(lab.b, lab.drops, "find_drop_row", <<col>>,
                     <<find_drop_row(lab.b, col)>>)
  /\ UNCHANGED <<sessionVars, turn_state, http, rolls, served, threads>>

DropByAnyone == DropDisc({"P1", "P2", BOT})

NextFind == DropByAnyone \/ CallFindDropRow

SpecFind == InitCalls({EmptyBoard, CrowdedBoard}) /\ [][NextFind]_vars

\* The identifiers on the cells of b.
Identifiers(b) == {b[r][c] : r \in Rows, c \in Cols} \ {None}

\* evaluate_board(lab.b, a, [b]) and evaluate_board(lab.b, b, [a]), for a
\* board holding exactly the identifiers a and b.
CallEvaluateBoard ==
  /\ \E a \in Humans, b \in Humans :
       /\ a # b
       /\ Identifiers(lab.b) = {a, b}
       /\ lab' = Called(lab.b, lab.drops, "evaluate_board", <<a, b>>,
                        <<evaluate_board(lab.b, a, <<b>>),
                          evaluate_board(lab.b, b, <<a>>)>>)
  /\ UNCHANGED <<sessionVars, turn_state, http, rolls, served, threads>>

DropByHuman == DropDisc(Humans)

NextEvaluate == DropByHuman \/ CallEvaluateBoard

SpecEvaluate == InitCalls({EmptyBoard, CrowdedBoard}) /\ [][NextEvaluate]_vars

\* choose_best_move(lab.b, "BOT", depth = depth) on a board just built, with
\* `opponents` the order infer_opponents returned.
CallChooseBestMove ==
  /\ lab.call = "none"
  /\ ~NoMovesAvailable(lab.b)
  /\ \E depth \in 1..MAX_DEPTH, opponents \in infer_opponents(lab.b, BOT) :
       lab' = Called(lab.b, lab.drops, "choose_best_move", <<depth, opponents>>,
                     <<choose_best_move(lab.b, BOT, opponents, depth)>>)
  /\ UNCHANGED <<sessionVars, turn_state, http, rolls, served, threads>>

DropByBotOrHuman == DropDisc({"P1", BOT})

NextSearch == DropByBotOrHuman \/ CallChooseBestMove

SpecSearch == InitCalls({CrowdedBoard}) /\ [][NextSearch]_vars

----------------------------------------------------------------------------
(* Claims about the dice (SpecDice) *)

LastRoll == rolls[Len(rolls)]

Distinct(players) == Cardinality(Elems(players))

\* Roll i drew, from the players list of roll i - 1, the player roll i - 1
\* drew, and roll i + 1 was called with that players list again.
TwiceThenRolled(i) ==
  /\ i + 1 <= Len(rolls)
  /\ rolls[i].repeat
  /\ rolls[i + 1].players = rolls[i].players

\* After the two consecutive wins of roll i - 1 and roll i: the player is not
\* in the pool of roll i + 1 and is in the pool of roll i + 2.
SitsOutOnce(i) ==
  /\ rolls[i].response.player \notin Elems(rolls[i + 1].pool)
  /\ (i + 2 <= Len(rolls) /\ rolls[i + 2].players = rolls[i].players)
       => rolls[i].response.player \in Elems(rolls[i + 2].pool)

\* C2 as stated: for every non-empty players list, a player two consecutive
\* rolls chose is absent from the pool of the roll after them and back in the
\* pool of the roll after that.
C2_FatigueAnyList ==
  \A i \in 1..Len(rolls) : TwiceThenRolled(i) => SitsOutOnce(i)

\* C2 amended: the fatigue rule for every players list with at least two
\* distinct players; with a single distinct player the pool falls back to the
\* whole list (lines 35-37).
C2_FatigueTwoPlayers ==
  \A i \in 1..Len(rolls) :
    (TwiceThenRolled(i) /\ Distinct(rolls[i].players) >= 2) => SitsOutOnce(i)

\* A player won twice from a list of two, sat out one roll and was back in
\* the pool of the roll after it.
C2_Witness ==
  /\ Len(rolls) = 3
  /\ TwiceThenRolled(1)
  /\ Distinct(rolls[1].players) >= 2
  /\ rolls[3].players = rolls[1].players
  /\ rolls[1].response.player \notin Elems(rolls[2].pool)
  /\ rolls[1].response.player \in Elems(rolls[3].pool)

\* C6 as stated: the next_roll_pool a roll returns is the pool the next roll,
\* called with the same players list, draws from.
C6_ReportedPoolIsNextPool ==
  \A i \in 1..Len(rolls) :
    (i + 1 <= Len(rolls) /\ rolls[i + 1].players = rolls[i].players)
      => rolls[i].response.next_roll_pool = rolls[i + 1].pool

\* C9: after every roll, last_player is the returned player, and either the
\* roll forced a skip (skip_next the returned player, consecutive_count 0) or
\* it did not (skip_next none, consecutive_count 1); consecutive_count is
\* always 0 or 1 and skip_next always none or last_player.
C9_TurnStateInvariant ==
  /\ turn_state.consecutive_count \in {0, 1}
  /\ turn_state.skip_next \in {None, turn_state.last_player}
  /\ rolls # <<>> =>
       /\ turn_state.last_player = LastRoll.response.player
       /\ LastRoll.response.skip_next = turn_state.skip_next
       /\ \/ /\ LastRoll.response.forced_skip
             /\ turn_state.skip_next = LastRoll.response.player
             /\ turn_state.consecutive_count = 0
          \/ /\ ~LastRoll.response.forced_skip
             /\ turn_state.skip_next = None
             /\ turn_state.consecutive_count = 1

\* A roll forced a skip, and the roll after it did not.
C9_Witness ==
  /\ Len(rolls) >= 2
  /\ rolls[Len(rolls) - 1].response.forced_skip
  /\ ~LastRoll.response.forced_skip
  /\ turn_state.consecutive_count = 1

----------------------------------------------------------------------------
(* Claims about the session (SpecSession) *)

\* Every non-empty cell of b has only non-empty cells below it.
Gravity(b) ==
  \A r \in Rows, c \in Cols :
    b[r][c] # None => \A below \in (r + 1)..(ROWS - 1) : b[below][c] # None

\* C4: after any sequence of human moves, bot moves and resets, the board of
\* the session and every hypothetical board the search built by find_drop_row
\* followed by place_disc keep every non-empty cell on non-empty cells.
C4_Gravity == Gravity(board) /\ Gravity(lab.b)

\* The search built a hypothetical board by dropping a disc on top of another
\* one, and the session placed the bot's disc on top of another one.
C4_Witness ==
  /\ lab.call = "hypothetical"
  /\ lab.result[1] < ROWS - 1
  /\ lab.b[lab.result[1]][lab.args[1]] = BOT
  /\ last_move # <<>>
  /\ last_move[1].player = BOT
  /\ last_move[1].row < ROWS - 1

\* The identifiers owning four cells in a row of b, in any of the four
\* directions.
LineOwners(b) ==
  {b[r][c] : r \in Rows, c \in Cols} \cap
  {p \in Elems(PLAYERS) :
     \E r \in Rows, c \in Cols, d \in {<<0, 1>>, <<1, 0>>, <<1, 1>>, <<1, -1>>} :
       \A k \in 0..(CONNECT_N - 1) :
         /\ r + k * d[1] \in Rows
         /\ c + k * d[2] \in Cols
         /\ b[r + k * d[1]][c + k * d[2]] = p}

\* The step is a move request answered.
MoveRequestAnswered == served' = served + 1

\* C10: the winner is none exactly when the board holds no line of four
\* same-owner cells; a winner owns such a line; and once a winner is set,
\* every move request is rejected and leaves board, winner, last_move and
\* history as they were (until a reset).
C10_WinnerMatchesBoard ==
  /\ []((winner = None <=> LineOwners(board) = {})
        /\ (winner # None => winner \in LineOwners(board)))
  /\ [][(winner # None /\ MoveRequestAnswered)
          => (http' = 400 /\ UNCHANGED sessionVars)]_vars

\* A move completed a line, its player became the winner, and the move
\* request after it was rejected.
C10_Witness ==
  /\ winner # None
  /\ winner \in LineOwners(board)
  /\ served = 2
  /\ http = 400
  /\ last_move # <<>>
  /\ last_move[1].player = winner

----------------------------------------------------------------------------
(* Claims about concurrent move requests (SpecConcurrent) *)

Discs(b) == Cardinality({<<r, c>> \in Rows \X Cols : b[r][c] # None})

Accepted == {i \in 1..Len(threads) : threads[i].pc = "done" /\ threads[i].status = 200}

Quiescent == \A i \in 1..Len(threads) : threads[i].pc = "done"

\* C8 as stated: once the move requests handled concurrently have all been
\* answered, every accepted move sits in its own cell (no two accepted moves
\* share a cell and none was overwritten) and the history gained one entry
\* per disc placed.
C8_SerializedWrites ==
  Quiescent =>
    /\ \A i \in Accepted :
         board[threads[i].drop_row][threads[i].column] = threads[i].player
    /\ \A i, j \in Accepted :
         i # j => <<threads[i].drop_row, threads[i].column>>
                    # <<threads[j].drop_row, threads[j].column>>
    /\ Len(history) = Discs(board)

----------------------------------------------------------------------------
(* Claims about find_drop_row (SpecFind) *)

\* C7: find_drop_row returns the highest-numbered empty row of the column,
\* and returns none exactly when the topmost cell (row 0) of the column is
\* occupied.
C7_FindDropRow ==
  lab.call = "find_drop_row" =>
    LET col == lab.args[1]
        row == lab.result[1]
    IN  /\ row = NoRow <=> lab.b[0][col] # None
        /\ row # NoRow =>
             /\ row \in Rows
             /\ lab.b[row][col] = None
             /\ \A r \in Rows : lab.b[r][col] = None => r <= row

\* find_drop_row was called on a column the drops filled up and returned
\* none, while another column of the board still has an empty row.
C7_Witness ==
  /\ lab.call = "find_drop_row"
  /\ lab.drops > 0
  /\ lab.result[1] = NoRow
  /\ lab.b[0][lab.args[1]] = BOT
  /\ \E c \in Cols : find_drop_row(lab.b, c) \in 1..(ROWS - 2)

----------------------------------------------------------------------------
(* Claims about evaluate_board (SpecEvaluate) *)

\* The windows of CONNECT_N cells of the board: <<row, col, dr, dc>>.
Windows ==
  {w \in Rows \X Cols \X {<<0, 1>>, <<1, 0>>, <<1, 1>>, <<-1, 1>>} :
     /\ w[1] + (CONNECT_N - 1) * w[3][1] \in Rows
     /\ w[2] + (CONNECT_N - 1) * w[3][2] \in Cols}

CellsOf(b, w) == [k \in 1..CONNECT_N |-> b[w[1] + (k - 1) * w[3][1]][w[2] + (k - 1) * w[3][2]]]

\* The windows of b holding k discs of one player and CONNECT_N - k empty cells.
Uncontested(b, k) ==
  Cardinality({w \in Windows :
                 \E p \in Identifiers(b) :
                   /\ Cardinality({i \in 1..CONNECT_N : CellsOf(b, w)[i] = p}) = k
                   /\ Cardinality({i \in 1..CONNECT_N : CellsOf(b, w)[i] = None})
                        = CONNECT_N - k})

CenterDiscs(b) == Cardinality({r \in Rows : b[r][COLS \div 2] # None})

\* C5 as stated: on a board holding exactly the identifiers a and b,
\* evaluate_board(board, a, [b]) = -evaluate_board(board, b, [a]).
C5_EvaluationSymmetry ==
  lab.call = "evaluate_board" => lab.result[1] = 0 - lab.result[2]

\* C5 amended: on a board holding exactly the identifiers a and b, the two
\* evaluations add up to 2.5 for each disc in the center column, minus 10 for
\* each window of three discs of one player and one empty cell, plus 2 for
\* each window of two discs of one player and two empty cells, plus 2 for
\* each window of one disc and three empty cells (in half points here).
C5_EvaluationSum ==
  lab.call = "evaluate_board" =>
    lab.result[1] + lab.result[2]
      = CENTER_WEIGHT_X2 * CenterDiscs(lab.b)
        - HalfPts(10) * Uncontested(lab.b, 3)
        + HalfPts(2) * Uncontested(lab.b, 2)
        + HalfPts(2) * Uncontested(lab.b, 1)

\* evaluate_board was called both ways on a board with a disc in the center
\* column and a window of three discs of one player, and the two results are
\* not the negative of each other.
C5_Witness ==
  /\ lab.call = "evaluate_board"
  /\ CenterDiscs(lab.b) > 0
  /\ Uncontested(lab.b, 3) > 0
  /\ lab.result[1] # 0 - lab.result[2]

----------------------------------------------------------------------------
(* Claims about the search (SpecSearch) *)

RECURSIVE Plain(_, _, _, _, _, _)
\* The search of minimax with no cutoff: a maximizing node takes the maximum
\* over the valid columns, a minimizing node the minimum over all (column,
\* opponent) pairs.  [v, n]: the value and the number of nodes.
Plain(b, depth, maximizing, bot_id, opponents, placed) ==
  IF placed # <<>> /\ check_win(b, placed[1], placed[2])
    THEN [v |-> TerminalScore(b, depth, bot_id, placed), n |-> 1]
  ELSE IF depth = 0 \/ valid_columns(b) = <<>>
    THEN [v |-> EvaluateAt[[b |-> b, bot_id |-> bot_id, opponents |-> opponents]], n |-> 1]
  ELSE
    LET cols   == valid_columns(b)
        movers == IF maximizing THEN <<bot_id>> ELSE opponents
        below  == [i \in 1..Len(cols), j \in 1..Len(movers) |->
                     LET d == Hypothetical(b, cols[i], movers[j])
                     IN  Plain(d.child, depth - 1, ~maximizing, bot_id, opponents,
                               <<d.row, d.col>>)]
        values == {below[x].v : x \in DOMAIN below}
        RECURSIVE Nodes(_, _)
        Nodes(i, j) == IF i > Len(cols) THEN 0
                       ELSE IF j > Len(movers) THEN Nodes(i + 1, 1)
                       ELSE below[i, j].n + Nodes(i, j + 1)
    IN  [v |-> IF maximizing
                 THEN CHOOSE v \in values : \A u \in values : u <= v
                 ELSE CHOOSE v \in values : \A u \in values : v <= u,
         n |-> 1 + Nodes(1, 1)]

\* The search of the last call of choose_best_move, without cutoffs.
PlainOfCall ==
  Plain(lab.b, lab.args[1], TRUE, BOT, lab.args[2], <<>>)

\* C1: the score choose_best_move returns is the score of the same search
\* with no cutoffs, for every board and every depth >= 1.
C1_AlphaBetaEquivalence ==
  lab.call = "choose_best_move" => lab.result[1].score = PlainOfCall.v

\* A search of depth 3 or more against two opponents visited fewer nodes than
\* the search without cutoffs (the root is a node of Plain only).
C1_Witness ==
  /\ lab.call = "choose_best_move"
  /\ lab.args[1] >= 3
  /\ Len(lab.args[2]) = 2
  /\ lab.result[1].nodes < PlainOfCall.n - 1

\* The columns where a disc of the bot completes a line of four.
WinningColumns(b) ==
  {c \in Cols :
     /\ find_drop_row(b, c) # NoRow
     /\ \E p \in LineOwners(Hypothetical(b, c, BOT).child) : p = BOT}

\* C3: on a board where a drop of the bot completes four (three of its discs
\* stacked in column 3, one drop short), choose_best_move at any depth >= 1
\* returns the first column whose drop completes the line (column 3 there)
\* and a score of at least WIN_SCORE.
C3_ImmediateWin ==
  (lab.call = "choose_best_move" /\ WinningColumns(lab.b) # {}) =>
    /\ lab.result[1].column \in WinningColumns(lab.b)
    /\ \A c \in WinningColumns(lab.b) : lab.result[1].column <= c
    /\ lab.result[1].score >= HalfPts(WIN_SCORE)
    /\ lab.result[1].row = find_drop_row(lab.b, lab.result[1].column)

\* The bot had three discs stacked in column 3 with the cell above them free,
\* and a search of depth 2 or more returned column 3 with a winning score.
C3_Witness ==
  /\ lab.call = "choose_best_move"
  /\ lab.args[1] >= 2
  /\ find_drop_row(lab.b, 3) \in 0..(ROWS - 4)
  /\ \A k \in 1..3 : lab.b[find_drop_row(lab.b, 3) + k][3] = BOT
  /\ lab.result[1].column = 3
  /\ lab.result[1].score >= HalfPts(WIN_SCORE)


====
